---- MODULE Spec2Model ----
(***************************************************************************)
(* Model of the real-time capture-and-inference pipeline of MAVEN:        *)
(*   - app.py: the frame loop get_frame (a generator, one per video_feed   *)
(*     request), the capture flag camera_active, the shared registry       *)
(*     current_emotions with its lock, the /emotions reader and the        *)
(*     start_camera / stop_camera handlers;                                *)
(*   - audio_emotion_detector.py: the lazily built detector and            *)
(*     predict_from_audio with its confidence gate;                        *)
(*   - app.py: the request-driven audio endpoints;                         *)
(*   - audio_emotion_detector.py: predict_from_file and its two decoders;  *)
(*   - multimodal_emotion.py: the VoiceWorker thread and its result cell.  *)
(* Variables whose name starts with g_ are history (ghost) variables: they *)
(* record what happened and are never read by a guard or an assignment of  *)
(* a program variable.                                                     *)
(***************************************************************************)
EXTENDS Integers, Sequences, FiniteSets, TLC

(* ------------------------------ bounds -------------------------------- *)
\* number of get_frame generators Spec runs (one stream consumer)
MaxLoops == 1
\* number of get_frame generators that can exist at once: every GET
\* /video_feed creates its own, and app.run(threaded=True) serves each
\* request in a thread of its own
MaxStreams == 2
\* most regions the localizer returns for one frame
MaxFaces == 2
\* frame width and height in pixels
FrameW == 2
FrameH == 2

Streams == 1..MaxStreams
Loops == 1..MaxLoops
Indices == 0..(MaxFaces - 1)
Reader == 0
NoOwner == -1

(* --------------------------- frame loop data -------------------------- *)
\* facial_area values the localizer can return: a region inside the frame,
\* a zero-width region and a region that sticks out of the frame
Boxes ==
  { [x |-> 0,          y |-> 0, w |-> 1, h |-> 1],
    [x |-> 1,          y |-> 0, w |-> 0, h |-> 1],
    [x |-> FrameW - 1, y |-> 1, w |-> 2, h |-> 1] }

RECURSIVE SeqsUpTo(_, _)
SeqsUpTo(S, n) ==
  IF n = 0 THEN { << >> }
  ELSE LET shorter == SeqsUpTo(S, n - 1)
       IN  shorter \cup { Append(s, b) : s \in { t \in shorter : Len(t) = n - 1 }, b \in S }

FaceLists == SeqsUpTo(Boxes, MaxFaces)

Max(a, b) == IF a >= b THEN a ELSE b
Min(a, b) == IF a <= b THEN a ELSE b

\* Python slice bound: a negative index counts from the end, then both are
\* clipped to 0..n
SliceIndex(i, n) == IF i < 0 THEN Max(i + n, 0) ELSE Min(i, n)
SliceLen(start, stop, n) == Max(0, SliceIndex(stop, n) - SliceIndex(start, n))

\* face_img = frame[y:y2, x:x2]; face_img.size (3 colour channels)
CropSize(box) ==
  SliceLen(box.y, box.y + box.h, FrameH) * SliceLen(box.x, box.x + box.w, FrameW) * 3

\* results of DeepFace.analyze: dominant emotion and its score in
\* thousandths of a percent
AnalyzeResults == { [emotion |-> "happy", score |-> 97126] }

\* round(confidence, 2) on a score held in thousandths (half to even)
Round2(c) ==
  LET q == c \div 10
      r == c % 10
  IN  IF r > 5 \/ (r = 5 /\ q % 2 = 1) THEN (q + 1) * 10 ELSE q * 10

\* the value stored at current_emotions[idx]
Entry(emotion, confidence, box) ==
  [ emotion    |-> emotion,
    confidence |-> Round2(confidence),
    coords     |-> << box.x, box.y, box.x + box.w, box.y + box.h >> ]

EmptyMap == [i \in {} |-> 0]
MapPut(m, k, v) == [i \in (DOMAIN m) \cup {k} |-> IF i = k THEN v ELSE m[i]]

(* ------------------------- audio detector data ------------------------ *)
\* Probabilities and confidences are held in units of 0.00001, so 1.0 is
\* 100000 and round(x, 4) is a rounding to a multiple of 10.

\* self.model.classes_: the label set of the pickled model, in its order
classes_ ==
  << "angry", "calm", "disgust", "fearful", "happy", "neutral", "sad", "surprised" >>

NumClasses == Len(classes_)

\* a posterior as predict_proba returns it: one value per class, summing to
\* 1.0, with value v at class m and the rest spread evenly over the others
Posterior(m, v) ==
  LET rest == 100000 - v
      q == rest \div (NumClasses - 1)
      r == rest % (NumClasses - 1)
      rank(i) == IF i < m THEN i ELSE i - 1
  IN  [i \in 1..NumClasses |-> IF i = m THEN v ELSE q + (IF rank(i) <= r THEN 1 ELSE 0)]

\* largest values tried for a posterior (none is a rounding tie)
TopValues == {12500, 14999, 15000, 15004, 62346, 100000}

\* what the pickled model does on a feature vector: predict and predict_proba
\* return (SVC's predict need not be the argmax of predict_proba), or one of
\* scaler.transform, predict and predict_proba raises
NoPosterior == [kind |-> "raise", prediction |-> "", probabilities |-> << >>]

ModelBehaviours ==
  { NoPosterior } \cup
  { [kind |-> "ok", prediction |-> classes_[p], probabilities |-> Posterior(1, v)] :
      p \in {1, 5}, v \in TopValues }

RECURSIVE MaxOf(_)
\* np.max(probabilities)
MaxOf(seq) ==
  IF Len(seq) = 1 THEN seq[1]
  ELSE LET m == MaxOf(Tail(seq)) IN IF seq[1] >= m THEN seq[1] ELSE m

\* round(confidence, 4) (half to even)
Round4(c) ==
  LET q == c \div 10
      r == c % 10
  IN  IF r > 5 \/ (r = 5 /\ q % 2 = 1) THEN (q + 1) * 10 ELSE q * 10

\* if confidence < 0.15: prediction = "neutral"; confidence = 0.15
GateThreshold == 15000
GateFloor == 15000

\* (mutant: the gate replaces the label and keeps the confidence)
Gate_LabelOnly(prediction, confidence) ==
  IF confidence < GateThreshold
  THEN [emotion |-> "neutral", confidence |-> confidence]
  ELSE [emotion |-> prediction, confidence |-> confidence]

\* (mutant: no confidence gate)
Gate_Off(prediction, confidence) == [emotion |-> prediction, confidence |-> confidence]

Gate(prediction, confidence) ==
  IF confidence < GateThreshold
  THEN [emotion |-> "neutral", confidence |-> GateFloor]
  ELSE [emotion |-> prediction, confidence |-> confidence]

\* (mutant: the distribution is rounded like the confidence)
ProbDict_Rounded(probabilities) ==
  [label \in { classes_[i] : i \in 1..NumClasses } |->
     Round4(probabilities[CHOOSE i \in 1..NumClasses : classes_[i] = label])]

\* prob_dict: label -> probability, built from zip(classes_, probabilities)
ProbDict(probabilities) ==
  [label \in { classes_[i] : i \in 1..NumClasses } |->
     probabilities[CHOOSE i \in 1..NumClasses : classes_[i] = label]]

\* (mutant: the except branch answers without the distribution)
Degraded_Partial(message) ==
  [ emotion |-> "neutral", confidence |-> 0, error |-> message ]

\* the except branch of predict_from_audio
Degraded(message) ==
  [ emotion |-> "neutral", confidence |-> 0, probabilities |-> EmptyMap,
    error |-> message ]

\* extract_features_from_audio: raises on audio that is empty after trimming
ExtractRaises(audio) == audio = "silence"

\* AudioEmotionDetector.predict_from_audio(audio_data, sample_rate)
predict_from_audio(audio, behaviour) ==
  IF ExtractRaises(audio) THEN Degraded("feature extraction failed")
  ELSE IF behaviour.kind = "raise" THEN Degraded("model invocation failed")
  ELSE LET gated == Gate(behaviour.prediction, MaxOf(behaviour.probabilities))
       IN  [ emotion       |-> gated.emotion,
             confidence    |-> Round4(gated.confidence),
             probabilities |-> ProbDict(behaviour.probabilities) ]

\* the rate librosa.load is asked for and wavfile's samples are resampled to
CanonicalRate == 22050

Rates == {22050, 44100}
Signals == {"speech", "silence"}

\* a sample buffer: the waveform it holds, its sampling rate, and the scale of
\* its samples ("unit": floats in [-1, 1]; "int16": as stored in a PCM file)
Buffer(signal, rate, scale) == [signal |-> signal, rate |-> rate, scale |-> scale]
NoBuffer == Buffer("none", 0, "none")

\* the vector extract_features_from_audio(y, sr) returns: it depends on the
\* waveform and on sr (frame length in seconds, mel filter bank), not on the
\* scale of the samples, which librosa.util.normalize removes
Features(buffer) == << buffer.signal, buffer.rate >>
FeatureVectors == Signals \X Rates

\* self.scaler.transform, self.model.predict and predict_proba on the
\* features of a buffer
Answer(model, buffer) == model[Features(buffer)]

\* an uploaded file: the decoder that can read it ("primary": librosa.load,
\* "secondary": only scipy's wavfile.read, "fail": neither), the waveform it
\* holds and the rate it is stored at
File(reader, signal, rate) == [reader |-> reader, signal |-> signal, rate |-> rate]
NoFile == File("none", "none", 0)

\* audio_data, sr = librosa.load(file_path, sr=22050, mono=True)
librosa_load(f) ==
  IF f.reader = "primary"
  THEN [ok |-> TRUE, buffer |-> Buffer(f.signal, CanonicalRate, "unit")]
  ELSE [ok |-> FALSE, buffer |-> NoBuffer]

\* sr, audio_data = wavfile.read(file_path)
wavfile_read(f) ==
  IF f.reader = "secondary"
  THEN [ok |-> TRUE, buffer |-> Buffer(f.signal, f.rate, "int16")]
  ELSE [ok |-> FALSE, buffer |-> NoBuffer]

\* audio_data.astype(float) / 32768.0
Rescale(b) == Buffer(b.signal, b.rate, "unit")

\* librosa.resample(audio_data, orig_sr=sr, target_sr=22050)
Resample(b, target_sr) == Buffer(b.signal, target_sr, b.scale)

\* (mutant: the samples wavfile.read returned are not resampled)
Converted_NoResample(b) == Rescale(b)

\* what predict_from_file makes of the samples wavfile.read returned
Converted(b) ==
  IF b.rate # CanonicalRate THEN Resample(Rescale(b), CanonicalRate) ELSE Rescale(b)

\* (mutant: no second decoder)
Decode_NoFallback(f) ==
  [ ok |-> librosa_load(f).ok, buffer |-> librosa_load(f).buffer,
    tried |-> << "librosa.load" >> ]

\* the decoding part of predict_from_file: librosa.load, and wavfile.read in
\* the except branch of it; tried lists the decoders called, in their order
Decode(f) ==
  LET first == librosa_load(f)
  IN  IF first.ok
      THEN [ok |-> TRUE, buffer |-> first.buffer, tried |-> << "librosa.load" >>]
      ELSE LET second == wavfile_read(f)
           IN  [ ok |-> second.ok,
                 buffer |-> IF second.ok THEN Converted(second.buffer) ELSE NoBuffer,
                 tried |-> << "librosa.load", "wavfile.read" >> ]

\* the outer except of predict_from_file
FileError(message) == [emotion |-> "neutral", confidence |-> 0, error |-> message]

\* AudioEmotionDetector.predict_from_file(file_path): when both decoders fail
\* the error of librosa.load is raised again and the outer except answers
predict_from_file(f, model) ==
  LET d == Decode(f)
  IN  IF d.ok
      THEN predict_from_audio(d.buffer.signal, Answer(model, d.buffer))
      ELSE FileError("librosa.load failed")

\* inputs the two functions are applied to
Files == { File(r, sg, rt) : r \in {"primary", "secondary", "fail"}, sg \in Signals, rt \in Rates }
Buffers == { Buffer(sg, rt, sc) : sg \in Signals, rt \in Rates, sc \in {"unit", "int16"} }

\* models the two functions are applied with: any answer on the features of
\* speech at either rate (the features of silence are never computed)
Models ==
  { [fv \in FeatureVectors |-> IF fv[1] = "speech" THEN m[fv[2]] ELSE NoPosterior] :
      m \in [Rates -> { NoPosterior,
                        [kind |-> "ok", prediction |-> "angry", probabilities |-> Posterior(1, 62346)],
                        [kind |-> "ok", prediction |-> "happy", probabilities |-> Posterior(1, 12500)] }] }

(* --------------------------- audio endpoints --------------------------- *)
\* request handler threads AudioSpec runs
MaxHandlers == 1
\* request handler threads that can be active at once (threaded=True)
MaxThreads == 2
Threads == 1..MaxThreads
Handlers == 1..MaxHandlers

\* _detector = None
None == 0

Request(endpoint, ok, named, device, decode, audio) ==
  [ endpoint |-> endpoint, ok |-> ok, named |-> named, device |-> device,
    decode |-> decode, audio |-> audio ]

NoRequest == Request("none", FALSE, FALSE, FALSE, "none", "none")

\* requests the endpoints are tried on. ok: the body is JSON (record, numpy)
\* or the form has a 'file' part (file); named: the file has a filename;
\* device: the input device records; decode: which decoder reads the file;
\* audio: what the samples are
Requests ==
  { Request("record", FALSE, FALSE, FALSE, "none", "none"),
    Request("record", TRUE, FALSE, FALSE, "none", "none") } \cup
  { Request("record", TRUE, FALSE, TRUE, "none", a) : a \in {"speech", "silence"} } \cup
  { Request("numpy", FALSE, FALSE, FALSE, "none", "none") } \cup
  { Request("numpy", TRUE, FALSE, FALSE, "none", a) : a \in {"empty", "speech", "silence"} } \cup
  { Request("file", FALSE, FALSE, FALSE, "none", "none"),
    Request("file", TRUE, FALSE, FALSE, "none", "none"),
    Request("file", TRUE, TRUE, FALSE, "fail", "none"),
    Request("file", TRUE, TRUE, FALSE, "primary", "silence") } \cup
  { Request("file", TRUE, TRUE, FALSE, d, "speech") : d \in {"primary", "secondary"} } \cup
  { Request("info", TRUE, FALSE, FALSE, "none", "none") }

Reply(status, body) == [status |-> status, body |-> body]
NoReply == Reply(0, EmptyMap)

\* the except Exception branch of the three prediction endpoints
ExceptionReply(message) ==
  Reply(500, [error |-> message, emotion |-> "neutral", confidence |-> 0])

NotInitialized == Reply(500, [error |-> "Audio detector not initialized"])
NoAudioData == Reply(400, [error |-> "No audio data provided"])
NoFileProvided == Reply(400, [error |-> "No file provided"])
NoFileSelected == Reply(400, [error |-> "No file selected"])

\* the body of /audio/info
Info ==
  Reply(200, [ status |-> "ready", emotions |-> classes_, sample_rate |-> 22050,
               feature_count |-> 26, duration_recommended |-> 7 ])

(* ------------------------------ state --------------------------------- *)
VARIABLES
  camera_active,     \* app.py global
  current_emotions,  \* app.py global: idx -> entry
  lock,              \* owner of app.py's lock, NoOwner when free
  pc,                \* per generator: its position in get_frame
  cap,               \* per generator: "none", "open", "released"
  faces,             \* per generator: result of extract_faces for the frame
  idx,               \* per generator: enumerate index of the for loop
  dominant_emotion,  \* per generator: local of the for body
  confidence,        \* per generator: local of the for body
  rpc,               \* position of the /emotions handler
  emotions,          \* last snapshot copied by the /emotions handler
  g_origin,          \* idx -> generator and iteration that put the entry
  g_snap_origin,     \* g_origin as copied with the snapshot
  g_frame,           \* per generator: history of the frame in progress
  g_stop,            \* per generator: history of stop requests
  g_prev,            \* history of the snapshots returned while capture is at rest
  artifacts,         \* whether the three .pkl files can be loaded
  svm_model,         \* what the pickled model answers
  _detector,         \* audio_emotion_detector.py global
  hpc,               \* per handler: its position in the endpoint
  request,           \* per handler: the request it serves
  detector,          \* per handler: local of the endpoint
  response,          \* per handler: the response it returns
  g_built,           \* number of AudioEmotionDetector instances built
  g_load_failed,     \* a load of the artifacts has failed
  g_call,            \* per handler: history of the request
  USE_PYAUDIOANALYSIS, \* multimodal_emotion.py global, set at import
  running,           \* VoiceWorker.running
  latest_emotion,    \* VoiceWorker.latest_emotion: the audio result cell
  q,                 \* VoiceWorker.q
  wpc,               \* position of VoiceWorker.run
  emotion,           \* local of VoiceWorker.run
  mpc,               \* position of the main loop of multimodal_emotion.py
  voice_label,       \* local of the main loop
  g_worker,          \* history of the worker's iteration in progress
  g_seen,            \* what the latest read of the cell had to return
  file,              \* input of predict_from_file
  direct,            \* input of predict_from_audio
  svc,               \* the pickled model: features -> what it answers
  dpc,               \* which of the two functions have been applied
  result_file,       \* result of predict_from_file(file)
  result_direct,     \* result of predict_from_audio(direct)
  g_tried            \* decoders predict_from_file called, in order

video_vars == << camera_active, current_emotions, lock, pc, cap, faces, idx,
                 dominant_emotion, confidence, rpc, emotions,
                 g_origin, g_snap_origin, g_frame, g_stop, g_prev >>

audio_vars == << artifacts, svm_model, _detector, hpc, request, detector, response,
                 g_built, g_load_failed, g_call >>

voice_vars == << USE_PYAUDIOANALYSIS, running, latest_emotion, q, wpc, emotion, mpc,
                 voice_label, g_worker, g_seen >>

decode_vars == << file, direct, svc, dpc, result_file, result_direct, g_tried >>

vars == << video_vars, audio_vars, voice_vars, decode_vars >>

loop_locals == << faces, idx, dominant_emotion, confidence >>
reader_vars == << rpc, emotions, g_snap_origin, g_prev >>

\* history of the frame a generator is working on: whether a frame was read,
\* whether the localizer returned for it, registry resets done for it
\* (counted up to 2), entries put for it, regions whose classification
\* failed, stream units emitted for it (up to 2), whether an overlay was
\* drawn on it, whether no other generator wrote the registry since this
\* frame's reset, the steps finished for the region in progress, in their
\* order, and how the loop ended after this frame ("no": it has not; "flag":
\* the while test found the flag down; "read": cap.read() failed; "closed":
\* the generator was closed at the yield)
NoFrame ==
  [ read |-> FALSE, located |-> FALSE, resets |-> 0, puts |-> EmptyMap,
    failed |-> {}, units |-> 0, drawn |-> FALSE, alone |-> FALSE, steps |-> << >>,
    ended |-> "no" ]
NewFrame == [ NoFrame EXCEPT !.read = TRUE ]

\* history of stop requests: g_stop[l].emitted counts (up to 2) the frames
\* generator l emitted since the latest stop_camera that found it running
\* (-1: none), restarted tells whether start_camera was called after it
NoStop == [ emitted |-> -1, restarted |-> FALSE ]

\* history of the /emotions queries answered while capture is at rest:
\* how many of them copied the registry (up to 2) since capture came to rest,
\* and the snapshot the first of them copied
NoPrev == [ count |-> 0, snap |-> EmptyMap ]

\* history of one request: what the handler did before it asked for the
\* detector, whether the artifacts could be loaded when get_detector tried
\* ("none": it did not try), whether the artifacts were missing and the
\* detector unset during the whole request so far, and the posterior the
\* model returned to predict_from_audio (NoPosterior: it returned none), and
\* which of the feature extractor and the classifier were invoked
NoCall ==
  [ effects |-> {}, load |-> "none", absent |-> FALSE, raw |-> NoPosterior,
    invoked |-> {} ]

\* no call of predict_from_file or predict_from_audio is modelled
DecodeIdle ==
  /\ file = NoFile
  /\ direct = NoBuffer
  /\ svc = [f \in FeatureVectors |-> NoPosterior]
  /\ dpc = {}
  /\ result_file = EmptyMap
  /\ result_direct = EmptyMap
  /\ g_tried = << >>

\* the cell as VoiceWorker.__init__ leaves it
InitialLabel == "listening..."

\* history of the worker's iteration in progress (of the latest one, between
\* iterations): the value of the cell when it started, the steps it has
\* finished in their order, the label its classification returned, how many
\* values it published (up to 2), whether it failed, whether the iteration
\* before it failed, how many values were published since stop() (up to 2),
\* the classifiers it called, in their order, and those of them that raised
NoIteration ==
  [ prev |-> InitialLabel, steps |-> << >>, label |-> "none", published |-> 0,
    failed |-> FALSE, retried |-> FALSE, after_stop |-> 0,
    tried |-> << >>, raised |-> {} ]

\* multimodal_emotion.py once voice_worker.start() returned: the worker is at
\* its first test of self.running, the main loop is about to start
VoiceIdle ==
  /\ running = TRUE
  /\ latest_emotion = InitialLabel
  /\ q = << >>
  /\ wpc = "test"
  /\ emotion = "none"
  /\ mpc = "loop"
  /\ voice_label = "none"
  /\ g_worker = NoIteration
  /\ g_seen = "none"

\* app.py after import: no generator, camera off, registry empty
VideoInit ==
  /\ camera_active = FALSE
  /\ current_emotions = EmptyMap
  /\ lock = NoOwner
  /\ pc = [l \in Streams |-> "none"]
  /\ cap = [l \in Streams |-> "none"]
  /\ faces = [l \in Streams |-> << >>]
  /\ idx = [l \in Streams |-> 0]
  /\ dominant_emotion = [l \in Streams |-> "none"]
  /\ confidence = [l \in Streams |-> 0]
  /\ rpc = "idle"
  /\ emotions = EmptyMap
  /\ g_origin = EmptyMap
  /\ g_snap_origin = EmptyMap
  /\ g_frame = [l \in Streams |-> NoFrame]
  /\ g_stop = [l \in Streams |-> NoStop]
  /\ g_prev = NoPrev

\* audio_emotion_detector.py after import: _detector = None, no request
AudioIdle ==
  /\ _detector = None
  /\ hpc = [h \in Threads |-> "idle"]
  /\ request = [h \in Threads |-> NoRequest]
  /\ detector = [h \in Threads |-> None]
  /\ response = [h \in Threads |-> NoReply]
  /\ g_built = 0
  /\ g_load_failed = FALSE
  /\ g_call = [h \in Threads |-> NoCall]

\* app.py while a stream is served: start_camera was called, the generator
\* of loop 1 has emitted a first frame with one face, was resumed and is
\* about to test the flag again
VideoStreaming ==
  LET box == [x |-> 0, y |-> 0, w |-> 1, h |-> 1]
      registry == MapPut(EmptyMap, 0, Entry("happy", 97126, box))
  IN  /\ camera_active = TRUE
      /\ current_emotions = registry
      /\ lock = NoOwner
      /\ pc = [l \in Streams |-> IF l = 1 THEN "poll" ELSE "none"]
      /\ cap = [l \in Streams |-> IF l = 1 THEN "open" ELSE "none"]
      /\ faces = [l \in Streams |-> << >>]
      /\ idx = [l \in Streams |-> 0]
      /\ dominant_emotion = [l \in Streams |-> "none"]
      /\ confidence = [l \in Streams |-> 0]
      /\ rpc = "idle"
      /\ emotions = EmptyMap
      /\ g_origin = MapPut(EmptyMap, 0, [loop |-> 1, cur |-> TRUE])
      /\ g_snap_origin = EmptyMap
      /\ g_frame = [l \in Streams |->
                      IF l = 1
                      THEN [ read |-> TRUE, located |-> TRUE, resets |-> 1,
                             puts |-> registry, failed |-> {}, units |-> 1,
                             drawn |-> TRUE, alone |-> TRUE,
                             steps |-> << "crop", "classify", "publish" >>,
                             ended |-> "no" ]
                      ELSE NoFrame]
      /\ g_stop = [l \in Streams |-> NoStop]
      /\ g_prev = NoPrev

\* the frame pipeline, with the artifacts in place and no audio request
Init ==
  /\ VideoInit
  /\ AudioIdle
  /\ VoiceIdle /\ USE_PYAUDIOANALYSIS = FALSE
  /\ DecodeIdle
  /\ artifacts = TRUE
  /\ svm_model = NoPosterior

\* the audio endpoints, for every behaviour of the pickled model, with the
\* artifacts in place or missing at startup
AudioInit ==
  /\ VideoInit
  /\ AudioIdle
  /\ VoiceIdle /\ USE_PYAUDIOANALYSIS = FALSE
  /\ DecodeIdle
  /\ artifacts \in BOOLEAN
  /\ svm_model \in ModelBehaviours

Cap2(n) == Min(n, 2)
Live(l) == pc[l] \notin {"none", "done", "closed"}

\* positions of get_frame inside an iteration of the while loop, from the
\* read of the frame to its encoding
InFrame ==
  {"read", "detect", "clear_wait", "clear", "for", "analyze", "put_wait", "put", "encode"}

\* capture is at rest: the flag is down and no generator is inside an
\* iteration
AtRest == camera_active = FALSE /\ \A l \in Streams : pc[l] \notin InFrame

\* entries of generator l are no longer of its iteration in progress
Age(origin, l) ==
  [i \in DOMAIN origin |->
     IF origin[i].loop = l THEN [origin[i] EXCEPT !.cur = FALSE] ELSE origin[i]]

\* another generator wrote the registry during the frames in progress
Disturb(frames, l) ==
  [k \in Streams |-> IF k = l THEN frames[k] ELSE [frames[k] EXCEPT !.alone = FALSE]]

(* ------------------- /video_feed and the generator -------------------- *)
\* video_feed: Response(get_frame(), ...) creates a generator; nothing of its
\* body runs before the server first iterates it
video_feed(l) ==
  /\ pc[l] \in {"none", "done", "closed"}
  /\ pc' = [pc EXCEPT ![l] = "start"]
  /\ cap' = [cap EXCEPT ![l] = "none"]
  /\ faces' = [faces EXCEPT ![l] = << >>]
  /\ idx' = [idx EXCEPT ![l] = 0]
  /\ dominant_emotion' = [dominant_emotion EXCEPT ![l] = "none"]
  /\ confidence' = [confidence EXCEPT ![l] = 0]
  /\ g_frame' = [g_frame EXCEPT ![l] = NoFrame]
  /\ g_stop' = [g_stop EXCEPT ![l] = NoStop]
  /\ g_origin' = Age(g_origin, l)
  /\ UNCHANGED << camera_active, current_emotions, lock, reader_vars, audio_vars, voice_vars, decode_vars >>

\* cap = cv2.VideoCapture(0)
OpenCapture(l) ==
  /\ pc[l] = "start"
  /\ pc' = [pc EXCEPT ![l] = "poll"]
  /\ cap' = [cap EXCEPT ![l] = "open"]
  /\ UNCHANGED << camera_active, current_emotions, lock, loop_locals, reader_vars,
                  g_origin, g_frame, g_stop, audio_vars, voice_vars, decode_vars >>

\* (mutant: the loop never looks at the flag)
LoopTest_Ignored(active) == "read"

\* while camera_active:
LoopTest(active) == IF active THEN "read" ELSE "release"

Poll(l) ==
  /\ pc[l] = "poll"
  /\ pc' = [pc EXCEPT ![l] = LoopTest(camera_active)]
  /\ g_frame' = [g_frame EXCEPT ![l].ended = IF pc'[l] = "release" THEN "flag" ELSE @]
  /\ UNCHANGED << camera_active, current_emotions, lock, cap, loop_locals, reader_vars,
                  g_origin, g_stop, audio_vars, voice_vars, decode_vars >>

\* (mutant: a failed read goes on to encode and yield the frame)
AfterReadFailure_Emit == "encode"

\* if not ret: break -- out of the while loop, to cap.release()
AfterReadFailure == "release"

\* ret, frame = cap.read(); if not ret: break
ReadFrame(l) ==
  /\ pc[l] = "read"
  /\ \E ret \in BOOLEAN :
       IF ret
       THEN /\ pc' = [pc EXCEPT ![l] = "detect"]
            /\ g_frame' = [g_frame EXCEPT ![l] = NewFrame]
            /\ g_origin' = Age(g_origin, l)
       ELSE /\ pc' = [pc EXCEPT ![l] = AfterReadFailure]
            /\ g_frame' = [g_frame EXCEPT ![l].ended = "read"]
            /\ UNCHANGED g_origin
  /\ UNCHANGED << camera_active, current_emotions, lock, cap, loop_locals, reader_vars,
                  g_stop, audio_vars, voice_vars, decode_vars >>

\* (mutant: a localizer failure drops the frame and starts the next iteration)
AfterLocalizerError_Drop == "poll"

\* where get_frame goes when DeepFace.extract_faces raises: the outer except
\* prints and falls through to the encoding of the frame
AfterLocalizerError == "encode"

\* (mutant: the registry is not reset before the regions are processed)
AfterLocalize_NoReset == "for"

\* where get_frame goes when DeepFace.extract_faces returns: the with block
\* that clears the registry
AfterLocalize == "clear_wait"

\* faces = DeepFace.extract_faces(...): returns regions or raises
ExtractFaces(l) ==
  /\ pc[l] = "detect"
  /\ \/ \E fs \in FaceLists :
          /\ faces' = [faces EXCEPT ![l] = fs]
          /\ pc' = [pc EXCEPT ![l] = AfterLocalize]
          /\ g_frame' = [g_frame EXCEPT ![l].located = TRUE]
     \/ /\ pc' = [pc EXCEPT ![l] = AfterLocalizerError]
        /\ UNCHANGED << faces, g_frame >>
  /\ UNCHANGED << camera_active, current_emotions, lock, cap, idx, dominant_emotion,
                  confidence, reader_vars, g_origin, g_stop, audio_vars, voice_vars, decode_vars >>

\* (mutant: the with block is entered whoever holds the lock)
Free_Always(owner) == TRUE

\* lock = threading.Lock(): acquire goes through only while nobody holds it
Free(owner) == owner = NoOwner

\* with lock: (entering)
Acquire(l, at, to) ==
  /\ pc[l] = at
  /\ Free(lock)
  /\ lock' = l
  /\ pc' = [pc EXCEPT ![l] = to]
  /\ UNCHANGED << camera_active, current_emotions, cap, loop_locals, reader_vars,
                  g_origin, g_frame, g_stop, audio_vars, voice_vars, decode_vars >>

AcquireClear(l) == Acquire(l, "clear_wait", "clear")

\* (mutant: the reset leaves the entries in place)
Cleared_Kept(m) == m

\* the registry after current_emotions.clear()
Cleared(m) == EmptyMap

Restrict(f, S) == [i \in S |-> f[i]]

\* current_emotions.clear(), leaving the with block; the for loop starts
Clear(l) ==
  /\ pc[l] = "clear"
  /\ current_emotions' = Cleared(current_emotions)
  /\ g_origin' = Restrict(g_origin, DOMAIN current_emotions')
  /\ lock' = NoOwner
  /\ idx' = [idx EXCEPT ![l] = 0]
  /\ pc' = [pc EXCEPT ![l] = "for"]
  /\ g_frame' = [Disturb(g_frame, l) EXCEPT
                   ![l].resets = Cap2(@ + 1), ![l].alone = TRUE]
  /\ UNCHANGED << camera_active, cap, faces, dominant_emotion, confidence,
                  reader_vars, g_stop, audio_vars, voice_vars, decode_vars >>

\* (mutant: an empty crop is not skipped)
Skipped_Never(box) == FALSE

\* if face_img.size == 0: continue
Skipped(box) == CropSize(box) = 0

\* (mutant: the entry is stored right after the crop)
AfterCrop_Store == "put_wait"

\* where get_frame goes with a crop that is not empty: the inner try with
\* DeepFace.analyze
AfterCrop == "analyze"

\* for idx, face_data in enumerate(faces): crop the region, skip an empty crop
ForRegion(l) ==
  /\ pc[l] = "for"
  /\ IF idx[l] >= Len(faces[l])
     THEN /\ pc' = [pc EXCEPT ![l] = "encode"]
          /\ UNCHANGED << idx, g_frame >>
     ELSE IF Skipped(faces[l][idx[l] + 1])
     THEN /\ idx' = [idx EXCEPT ![l] = @ + 1]
          /\ g_frame' = [g_frame EXCEPT ![l].steps = << "crop" >>]
          /\ UNCHANGED pc
     ELSE /\ pc' = [pc EXCEPT ![l] = AfterCrop]
          /\ g_frame' = [g_frame EXCEPT ![l].steps = << "crop" >>]
          /\ UNCHANGED idx
  /\ UNCHANGED << camera_active, current_emotions, lock, cap, faces, dominant_emotion,
                  confidence, reader_vars, g_origin, g_stop, audio_vars, voice_vars,
                  decode_vars >>

\* the inner except: dominant_emotion = "unknown"; confidence = 0
OnAnalyzeError == [emotion |-> "unknown", score |-> 0]

\* (mutant: no inner except, the failure reaches the outer except)
AfterAnalyzeError_Abort == "encode"

\* where get_frame goes from the inner except: on to the with block that
\* stores the entry
AfterAnalyzeError == "put_wait"

\* analysis = DeepFace.analyze(...): a result, or an exception caught by the
\* inner except
Analyze(l) ==
  /\ pc[l] = "analyze"
  /\ \/ \E a \in AnalyzeResults :
          /\ dominant_emotion' = [dominant_emotion EXCEPT ![l] = a.emotion]
          /\ confidence' = [confidence EXCEPT ![l] = a.score]
          /\ pc' = [pc EXCEPT ![l] = "put_wait"]
          /\ g_frame' = [g_frame EXCEPT ![l].steps = Append(@, "classify")]
     \/ /\ dominant_emotion' = [dominant_emotion EXCEPT ![l] = OnAnalyzeError.emotion]
        /\ confidence' = [confidence EXCEPT ![l] = OnAnalyzeError.score]
        /\ g_frame' = [g_frame EXCEPT ![l].failed = @ \cup {idx[l]},
                                      ![l].steps = Append(@, "classify")]
        /\ pc' = [pc EXCEPT ![l] = AfterAnalyzeError]
  /\ UNCHANGED << camera_active, current_emotions, lock, cap, faces, idx,
                  reader_vars, g_origin, g_stop, audio_vars, voice_vars, decode_vars >>

AcquirePut(l) == Acquire(l, "put_wait", "put")

\* current_emotions[idx] = {...}, leaving the with block; then the overlay
\* is drawn on the frame and the for loop goes to the next region
Put(l) ==
  /\ pc[l] = "put"
  /\ LET e == Entry(dominant_emotion[l], confidence[l], faces[l][idx[l] + 1])
     IN  /\ current_emotions' = MapPut(current_emotions, idx[l], e)
         /\ g_origin' = MapPut(g_origin, idx[l], [loop |-> l, cur |-> TRUE])
         /\ g_frame' = [Disturb(g_frame, l) EXCEPT
                          ![l].puts = MapPut(@, idx[l], e), ![l].drawn = TRUE,
                          ![l].steps = Append(@, "publish")]
  /\ lock' = NoOwner
  /\ idx' = [idx EXCEPT ![l] = @ + 1]
  /\ pc' = [pc EXCEPT ![l] = "for"]
  /\ UNCHANGED << camera_active, cap, faces, dominant_emotion, confidence,
                  reader_vars, g_stop, audio_vars, voice_vars, decode_vars >>

\* cv2.imencode and the yield: one multipart unit leaves the generator, which
\* is then suspended until the server asks for the next unit
Emit(l) ==
  /\ pc[l] = "encode"
  /\ pc' = [pc EXCEPT ![l] = "yield"]
  /\ g_frame' = [g_frame EXCEPT ![l].units = Cap2(@ + 1)]
  /\ g_stop' = [g_stop EXCEPT ![l].emitted = IF @ < 0 THEN @ ELSE Cap2(@ + 1)]
  /\ UNCHANGED << camera_active, current_emotions, lock, cap, loop_locals,
                  reader_vars, g_origin, audio_vars, voice_vars, decode_vars >>

\* the server pulls the next unit: the generator resumes after the yield
\* (the locals of the finished iteration are dead: each is assigned again
\* before it is read, so the model forgets them here)
Resume(l) ==
  /\ pc[l] = "yield"
  /\ pc' = [pc EXCEPT ![l] = "poll"]
  /\ faces' = [faces EXCEPT ![l] = << >>]
  /\ idx' = [idx EXCEPT ![l] = 0]
  /\ dominant_emotion' = [dominant_emotion EXCEPT ![l] = "none"]
  /\ confidence' = [confidence EXCEPT ![l] = 0]
  /\ UNCHANGED << camera_active, current_emotions, lock, cap,
                  reader_vars, g_origin, g_frame, g_stop, audio_vars, voice_vars, decode_vars >>

\* the client went away: the server closes the generator, GeneratorExit is
\* raised at the yield and leaves get_frame
Close(l) ==
  /\ pc[l] = "yield"
  /\ pc' = [pc EXCEPT ![l] = "closed"]
  /\ g_frame' = [g_frame EXCEPT ![l].ended = "closed"]
  /\ UNCHANGED << camera_active, current_emotions, lock, cap, loop_locals,
                  reader_vars, g_origin, g_stop, audio_vars, voice_vars, decode_vars >>

\* (mutant: a generator that ends lowers the flag)
Release_Lowers(l) ==
  /\ pc[l] = "release"
  /\ pc' = [pc EXCEPT ![l] = "done"]
  /\ cap' = [cap EXCEPT ![l] = "released"]
  /\ camera_active' = FALSE
  /\ UNCHANGED << current_emotions, lock, loop_locals, reader_vars,
                  g_origin, g_frame, g_stop, audio_vars, voice_vars, decode_vars >>

\* cap.release() after the while loop
Release(l) ==
  /\ pc[l] = "release"
  /\ pc' = [pc EXCEPT ![l] = "done"]
  /\ cap' = [cap EXCEPT ![l] = "released"]
  /\ UNCHANGED << camera_active, current_emotions, lock, loop_locals, reader_vars,
                  g_origin, g_frame, g_stop, audio_vars, voice_vars, decode_vars >>

(* --------------------- start_camera / stop_camera --------------------- *)
start_camera ==
  /\ camera_active' = TRUE
  /\ g_stop' = [l \in Streams |->
                  IF g_stop[l].emitted >= 0 /\ Live(l)
                  THEN [g_stop[l] EXCEPT !.restarted = TRUE] ELSE g_stop[l]]
  /\ g_prev' = NoPrev
  /\ UNCHANGED << current_emotions, lock, pc, cap, loop_locals, rpc, emotions,
                  g_snap_origin, g_origin, g_frame, audio_vars, voice_vars, decode_vars >>

\* the value stop_camera stores in camera_active
StopValue == FALSE

stop_camera ==
  /\ camera_active' = StopValue
  /\ g_stop' = [l \in Streams |->
                  IF Live(l) THEN [emitted |-> 0, restarted |-> FALSE] ELSE g_stop[l]]
  /\ UNCHANGED << current_emotions, lock, pc, cap, loop_locals, reader_vars,
                  g_origin, g_frame, audio_vars, voice_vars, decode_vars >>

(* ------------------------------ /emotions ----------------------------- *)
\* with lock: (entering)
get_emotions_lock ==
  /\ rpc = "idle"
  /\ Free(lock)
  /\ lock' = Reader
  /\ rpc' = "copy"
  /\ UNCHANGED << camera_active, current_emotions, pc, cap, loop_locals, emotions,
                  g_origin, g_snap_origin, g_frame, g_stop, g_prev, audio_vars, voice_vars, decode_vars >>

\* emotions = current_emotions.copy(), leaving the with block
get_emotions_copy ==
  /\ rpc = "copy"
  /\ emotions' = current_emotions
  /\ g_snap_origin' = g_origin
  /\ g_prev' = IF AtRest
               THEN [ count |-> Cap2(g_prev.count + 1),
                      snap  |-> IF g_prev.count = 0 THEN current_emotions ELSE g_prev.snap ]
               ELSE NoPrev
  /\ lock' = NoOwner
  /\ rpc' = "reply"
  /\ UNCHANGED << camera_active, current_emotions, pc, cap, loop_locals,
                  g_origin, g_frame, g_stop, audio_vars, voice_vars, decode_vars >>

\* return jsonify(emotions): the copy is the response; the handler's local
\* is gone once the handler returned
get_emotions_return ==
  /\ rpc = "reply"
  /\ rpc' = "idle"
  /\ emotions' = EmptyMap
  /\ g_snap_origin' = EmptyMap
  /\ UNCHANGED << camera_active, current_emotions, lock, pc, cap, loop_locals,
                  g_origin, g_frame, g_stop, g_prev, audio_vars, voice_vars, decode_vars >>

(* --------------------------- specification ---------------------------- *)
get_frame(l) ==
  \/ OpenCapture(l)
  \/ Poll(l)
  \/ ReadFrame(l)
  \/ ExtractFaces(l)
  \/ AcquireClear(l)
  \/ Clear(l)
  \/ ForRegion(l)
  \/ Analyze(l)
  \/ AcquirePut(l)
  \/ Put(l)
  \/ Emit(l)
  \/ Release(l)

Next ==
  \/ \E l \in Loops : video_feed(l)
  \/ \E l \in Loops : get_frame(l)
  \/ \E l \in Loops : Resume(l)
  \/ \E l \in Loops : Close(l)
  \/ start_camera
  \/ stop_camera
  \/ get_emotions_lock
  \/ get_emotions_copy
  \/ get_emotions_return

Spec == Init /\ [][Next]_vars

\* Scheduling: a generator that can take a step of its own eventually takes
\* it; a with block that is entered is left; a thread that waits for the
\* lock gets it when the lock is free again and again; the server keeps
\* pulling units from a suspended generator or closes it
Fairness ==
  /\ \A l \in Loops :
        /\ WF_vars(OpenCapture(l) \/ Poll(l) \/ ReadFrame(l) \/ ExtractFaces(l)
                     \/ Clear(l) \/ ForRegion(l) \/ Analyze(l) \/ Put(l)
                     \/ Emit(l) \/ Release(l))
        /\ SF_vars(AcquireClear(l) \/ AcquirePut(l))
        /\ WF_vars(Resume(l) \/ Close(l))
  /\ WF_vars(get_emotions_copy)

FairSpec == Spec /\ Fairness

\* Several stream consumers: every GET /video_feed runs get_frame in a
\* generator of its own, all of them on the one flag, the one registry and
\* the one lock. Each generator is followed up to its first unit (or to its
\* end); a consumer may ask for a new stream once its generator ended.
StreamsNext ==
  \/ \E l \in Streams : video_feed(l)
  \/ \E l \in Streams : get_frame(l)
  \/ start_camera
  \/ stop_camera

StreamsSpec == Init /\ [][StreamsNext]_vars

(* ------------------------ the audio endpoints -------------------------- *)
handler_locals == << request, detector, response >>

\* the files appear on disk or disappear from it
ArtifactsChange ==
  /\ artifacts' = ~artifacts
  /\ g_call' = [h \in Threads |-> [g_call[h] EXCEPT !.absent = FALSE]]
  /\ UNCHANGED << video_vars, voice_vars, decode_vars, svm_model, _detector, hpc, handler_locals,
                  g_built, g_load_failed >>

\* a request reaches one of /audio/record, /audio/predict_file,
\* /audio/predict_numpy, /audio/info
Arrive(h) ==
  /\ hpc[h] = "idle"
  /\ \E r \in Requests : request' = [request EXCEPT ![h] = r]
  /\ hpc' = [hpc EXCEPT ![h] = "validate"]
  /\ detector' = [detector EXCEPT ![h] = None]
  /\ response' = [response EXCEPT ![h] = NoReply]
  /\ g_call' = [g_call EXCEPT ![h] =
                  [NoCall EXCEPT !.absent = (~artifacts /\ _detector = None)]]
  /\ UNCHANGED << video_vars, voice_vars, decode_vars, artifacts, svm_model, _detector, g_built, g_load_failed >>

\* (mutant: predict_audio_numpy does not test the length of the array)
Validate_NoEmptyCheck(r) ==
  IF r.endpoint = "numpy" /\ r.ok
  THEN [to |-> "get_detector", reply |-> NoReply]
  ELSE [to |-> "reply", reply |-> ExceptionReply("no JSON body")]

\* what the endpoint does with the request before anything else: the reply
\* it returns at once, or the step it goes to
\*   record: request.json.get(...) (raises when the body is no JSON)
\*   file:   'file' not in request.files; file.filename == ''
\*   numpy:  request.json; len(audio_array) == 0
Validate(r) ==
  CASE r.endpoint = "record" ->
         IF ~r.ok THEN [to |-> "reply", reply |-> ExceptionReply("no JSON body")]
         ELSE [to |-> "effects", reply |-> NoReply]
    [] r.endpoint = "file" ->
         IF ~r.ok THEN [to |-> "reply", reply |-> NoFileProvided]
         ELSE IF ~r.named THEN [to |-> "reply", reply |-> NoFileSelected]
         ELSE [to |-> "effects", reply |-> NoReply]
    [] r.endpoint = "numpy" ->
         IF ~r.ok THEN [to |-> "reply", reply |-> ExceptionReply("no JSON body")]
         ELSE IF r.audio = "empty" THEN [to |-> "reply", reply |-> NoAudioData]
         ELSE [to |-> "get_detector", reply |-> NoReply]
    [] OTHER -> [to |-> "get_detector", reply |-> NoReply]

Validation(h) ==
  /\ hpc[h] = "validate"
  /\ hpc' = [hpc EXCEPT ![h] = Validate(request[h]).to]
  /\ response' = [response EXCEPT ![h] = Validate(request[h]).reply]
  /\ UNCHANGED << video_vars, voice_vars, decode_vars, artifacts, svm_model, _detector, request, detector,
                  g_built, g_load_failed, g_call >>

\* what the endpoint does before it calls get_detector
\*   record: sd.rec(...); sd.wait()
\*   file:   file.save(temp_path); shutil.copy(temp_path, debug_path)
EffectsOf(r) ==
  IF r.endpoint = "record" THEN {"audio recorded"}
  ELSE {"temp file written", "debug copy written"}

Effects(h) ==
  /\ hpc[h] = "effects"
  /\ IF request[h].endpoint = "record" /\ ~request[h].device
     THEN /\ hpc' = [hpc EXCEPT ![h] = "reply"]
          /\ response' = [response EXCEPT ![h] = ExceptionReply("no input device")]
          /\ UNCHANGED g_call
     ELSE /\ hpc' = [hpc EXCEPT ![h] = "get_detector"]
          /\ g_call' = [g_call EXCEPT ![h].effects = EffectsOf(request[h])]
          /\ UNCHANGED response
  /\ UNCHANGED << video_vars, voice_vars, decode_vars, artifacts, svm_model, _detector, request, detector,
                  g_built, g_load_failed >>

\* get_detector: if _detector is None:
get_detector_test(h) ==
  /\ hpc[h] = "get_detector"
  /\ IF _detector = None
     THEN /\ hpc' = [hpc EXCEPT ![h] = "load"]
          /\ UNCHANGED detector
     ELSE /\ hpc' = [hpc EXCEPT ![h] = "check"]
          /\ detector' = [detector EXCEPT ![h] = _detector]
  /\ UNCHANGED << video_vars, voice_vars, decode_vars, artifacts, svm_model, _detector, request, response,
                  g_built, g_load_failed, g_call >>

\* (mutant: the constructor swallows the load error)
Construct_Anyway(present, instance) == instance

\* _detector = AudioEmotionDetector() inside get_detector's try: the new
\* instance, or None when joblib.load raises
Construct(present, instance) == IF present THEN instance ELSE None

\* get_detector: the load, the assignment and the return
get_detector_load(h) ==
  /\ hpc[h] = "load"
  /\ LET d == Construct(artifacts, g_built + 1)
     IN  /\ detector' = [detector EXCEPT ![h] = d]
         /\ _detector' = IF d = None THEN _detector ELSE d
         /\ g_built' = IF d = None THEN g_built ELSE g_built + 1
         /\ g_load_failed' = (g_load_failed \/ d = None)
  /\ g_call' = [g_call EXCEPT ![h].load = IF artifacts THEN "present" ELSE "missing"]
  /\ hpc' = [hpc EXCEPT ![h] = "check"]
  /\ UNCHANGED << video_vars, voice_vars, decode_vars, artifacts, svm_model, request, response >>

\* if detector is None: return jsonify({'error': ...}), 500
CheckDetector(h) ==
  /\ hpc[h] = "check"
  /\ IF detector[h] = None
     THEN /\ hpc' = [hpc EXCEPT ![h] = "reply"]
          /\ response' = [response EXCEPT ![h] = NotInitialized]
     ELSE IF request[h].endpoint = "info"
     THEN /\ hpc' = [hpc EXCEPT ![h] = "reply"]
          /\ response' = [response EXCEPT ![h] = Info]
     ELSE /\ hpc' = [hpc EXCEPT ![h] = "predict"]
          /\ UNCHANGED response
  /\ UNCHANGED << video_vars, voice_vars, decode_vars, artifacts, svm_model, _detector, request, detector,
                  g_built, g_load_failed, g_call >>

\* result = detector.predict_from_audio(...) or detector.predict_from_file(...);
\* return jsonify(result)
Predict(h) ==
  /\ hpc[h] = "predict"
  /\ LET r == request[h]
         result == IF r.endpoint = "file"
                   THEN predict_from_file(File(r.decode, r.audio, CanonicalRate),
                                          [fv \in FeatureVectors |-> svm_model])
                   ELSE predict_from_audio(r.audio, svm_model)
     IN  response' = [response EXCEPT ![h] = Reply(200, result)]
  /\ g_call' = [g_call EXCEPT
                  ![h].raw = IF request[h].decode # "fail" /\ ~ExtractRaises(request[h].audio)
                             THEN svm_model ELSE NoPosterior,
                  ![h].invoked = IF request[h].decode = "fail" THEN {}
                                 ELSE IF ExtractRaises(request[h].audio) THEN {"extract"}
                                 ELSE {"extract", "classify"}]
  /\ hpc' = [hpc EXCEPT ![h] = "reply"]
  /\ UNCHANGED << video_vars, voice_vars, decode_vars, artifacts, svm_model, _detector, request, detector,
                  g_built, g_load_failed >>

\* (mutant: the handler resets the registry when it returns)
Return_ClearsRegistry(h) ==
  /\ hpc[h] = "reply"
  /\ hpc' = [hpc EXCEPT ![h] = "idle"]
  /\ request' = [request EXCEPT ![h] = NoRequest]
  /\ detector' = [detector EXCEPT ![h] = None]
  /\ response' = [response EXCEPT ![h] = NoReply]
  /\ g_call' = [g_call EXCEPT ![h] = NoCall]
  /\ current_emotions' = EmptyMap
  /\ g_origin' = EmptyMap
  /\ UNCHANGED << camera_active, lock, pc, cap, loop_locals, reader_vars, g_frame, g_stop,
                  voice_vars, decode_vars, artifacts, svm_model, _detector, g_built,
                  g_load_failed >>

\* the response is sent and the handler ends
Return(h) ==
  /\ hpc[h] = "reply"
  /\ hpc' = [hpc EXCEPT ![h] = "idle"]
  /\ request' = [request EXCEPT ![h] = NoRequest]
  /\ detector' = [detector EXCEPT ![h] = None]
  /\ response' = [response EXCEPT ![h] = NoReply]
  /\ g_call' = [g_call EXCEPT ![h] = NoCall]
  /\ UNCHANGED << video_vars, voice_vars, decode_vars, artifacts, svm_model, _detector, g_built, g_load_failed >>

AudioNext ==
  \/ ArtifactsChange
  \/ \E h \in Handlers : Arrive(h)
  \/ \E h \in Handlers : Validation(h)
  \/ \E h \in Handlers : Effects(h)
  \/ \E h \in Handlers : get_detector_test(h)
  \/ \E h \in Handlers : get_detector_load(h)
  \/ \E h \in Handlers : CheckDetector(h)
  \/ \E h \in Handlers : Predict(h)
  \/ \E h \in Handlers : Return(h)

AudioSpec == AudioInit /\ [][AudioNext]_vars

\* the audio endpoints while app.py is idle or serves a stream, with the
\* artifacts in place or missing
StatelessInit ==
  /\ VideoInit \/ VideoStreaming
  /\ AudioIdle
  /\ artifacts \in BOOLEAN
  /\ svm_model \in { NoPosterior,
                     [kind |-> "ok", prediction |-> "happy", probabilities |-> Posterior(5, 62346)] }
  /\ VoiceIdle /\ USE_PYAUDIOANALYSIS = FALSE
  /\ DecodeIdle

StatelessSpec == StatelessInit /\ [][AudioNext]_vars

\* Several request threads at once (app.run(threaded=True)) on one model
ThreadsInit ==
  /\ VideoInit
  /\ AudioIdle
  /\ VoiceIdle /\ USE_PYAUDIOANALYSIS = FALSE
  /\ DecodeIdle
  /\ artifacts \in BOOLEAN
  /\ svm_model = [kind |-> "ok", prediction |-> "happy", probabilities |-> Posterior(5, 62346)]

ThreadsNext ==
  \/ ArtifactsChange
  \/ \E h \in Threads : Arrive(h)
  \/ \E h \in Threads : Validation(h)
  \/ \E h \in Threads : Effects(h)
  \/ \E h \in Threads : get_detector_test(h)
  \/ \E h \in Threads : get_detector_load(h)
  \/ \E h \in Threads : CheckDetector(h)
  \/ \E h \in Threads : Predict(h)
  \/ \E h \in Threads : Return(h)

ThreadsSpec == ThreadsInit /\ [][ThreadsNext]_vars

(* ------------------- multimodal_emotion.py: VoiceWorker ---------------- *)
worker_locals == << wpc, emotion >>

\* labels voice_emotion_heuristic returns from its threshold rules
HeuristicLabels == {"angry", "happy", "sad", "neutral"}

\* class names a pyAudioAnalysis model returns
PyAudioLabels == {"fear"}

\* (mutant: a value is stored only while the cell holds its initial value)
Publish_IfUnset(old, new) == IF old = InitialLabel THEN new ELSE old

\* self.latest_emotion = <value>: the new value replaces the old one
Publish(old, new) == new

\* (mutant: the worker ends after a failed iteration)
AfterSleep_Exit == "exit"

\* where run goes after the except branch: back to the test of the while
AfterSleep == "test"

\* while self.running:
WorkerTest ==
  /\ wpc = "test"
  /\ IF running
     THEN /\ wpc' = "capture"
          /\ g_worker' = [ NoIteration EXCEPT !.prev = latest_emotion,
                                              !.retried = g_worker.failed,
                                              !.after_stop = g_worker.after_stop ]
     ELSE /\ wpc' = "exit"
          /\ UNCHANGED g_worker
  /\ UNCHANGED << USE_PYAUDIOANALYSIS, running, latest_emotion, q, emotion, mpc,
                  voice_label, g_seen, video_vars, audio_vars, decode_vars >>

\* frames = sd.rec(...); sd.wait(); audio_np = frames.flatten(): a chunk, or
\* an exception caught by the except of run
Capture ==
  /\ wpc = "capture"
  /\ \/ /\ wpc' = "save"
        /\ g_worker' = [g_worker EXCEPT !.steps = Append(@, "capture")]
     \/ /\ wpc' = "except"
        /\ UNCHANGED g_worker
  /\ UNCHANGED << USE_PYAUDIOANALYSIS, running, latest_emotion, q, emotion, mpc,
                  voice_label, g_seen, video_vars, audio_vars, decode_vars >>

\* (mutant: the heuristic is used whether or not pyAudioAnalysis is there)
FirstClassifier_Heuristic(available) == "heuristic"

\* if USE_PYAUDIOANALYSIS: ... ; if emotion is None: ...
FirstClassifier(available) == IF available THEN "pyaudio" ELSE "heuristic"

\* save_temp_wav(wav_path, audio_np); emotion = None; if USE_PYAUDIOANALYSIS:
SaveTempWav ==
  /\ wpc = "save"
  /\ \/ /\ wpc' = FirstClassifier(USE_PYAUDIOANALYSIS)
        /\ emotion' = "none"
     \/ /\ wpc' = "except"
        /\ UNCHANGED emotion
  /\ UNCHANGED << USE_PYAUDIOANALYSIS, running, latest_emotion, q, mpc,
                  voice_label, g_worker, g_seen, video_vars, audio_vars, decode_vars >>

\* emotion = voice_emotion_pyaudio(wav_path): file_classification extracts
\* the features and classifies them; when no model is usable it raises and
\* emotion stays None
PyAudio ==
  /\ wpc = "pyaudio"
  /\ \/ \E label \in PyAudioLabels :
          /\ emotion' = label
          /\ wpc' = "publish"
          /\ g_worker' = [g_worker EXCEPT !.steps = @ \o << "extract", "classify" >>,
                                          !.label = label,
                                          !.tried = Append(@, "pyaudio")]
     \/ /\ emotion' = "none"
        /\ wpc' = "heuristic"
        /\ g_worker' = [g_worker EXCEPT !.tried = Append(@, "pyaudio"),
                                        !.raised = @ \cup {"pyaudio"}]
  /\ UNCHANGED << USE_PYAUDIOANALYSIS, running, latest_emotion, q, mpc,
                  voice_label, g_seen, video_vars, audio_vars, decode_vars >>

\* voice_emotion_heuristic, first part: rms, median pitch and zero crossing
\* rate of the chunk; on an empty chunk or an exception the function ends
\* here and returns "unknown"
HeuristicFeatures ==
  /\ wpc = "heuristic"
  /\ \/ /\ wpc' = "rules"
        /\ g_worker' = [g_worker EXCEPT !.steps = Append(@, "extract"),
                                        !.tried = Append(@, "heuristic")]
        /\ UNCHANGED emotion
     \/ /\ emotion' = "unknown"
        /\ wpc' = "publish"
        /\ g_worker' = [g_worker EXCEPT !.steps = @ \o << "extract", "classify" >>,
                                        !.label = "unknown",
                                        !.tried = Append(@, "heuristic"),
                                        !.raised = @ \cup {"heuristic"}]
  /\ UNCHANGED << USE_PYAUDIOANALYSIS, running, latest_emotion, q, mpc,
                  voice_label, g_seen, video_vars, audio_vars, decode_vars >>

\* voice_emotion_heuristic, second part: the threshold rules give the label
HeuristicRules ==
  /\ wpc = "rules"
  /\ \E label \in HeuristicLabels :
       /\ emotion' = label
       /\ g_worker' = [g_worker EXCEPT !.steps = Append(@, "classify"), !.label = label]
  /\ wpc' = "publish"
  /\ UNCHANGED << USE_PYAUDIOANALYSIS, running, latest_emotion, q, mpc,
                  voice_label, g_seen, video_vars, audio_vars, decode_vars >>

\* the iteration published one more value
Published(g) ==
  [ g EXCEPT !.steps = Append(@, "publish"),
             !.published = Cap2(@ + 1),
             !.after_stop = IF running THEN @ ELSE Cap2(@ + 1) ]

\* self.latest_emotion = emotion, the last statement of the try
PublishEmotion ==
  /\ wpc = "publish"
  /\ latest_emotion' = Publish(latest_emotion, emotion)
  /\ g_worker' = Published(g_worker)
  /\ wpc' = "test"
  /\ emotion' = "none"
  /\ UNCHANGED << USE_PYAUDIOANALYSIS, running, q, mpc, voice_label, g_seen,
                  video_vars, audio_vars, decode_vars >>

\* except Exception: self.latest_emotion = "unknown"
OnWorkerError ==
  /\ wpc = "except"
  /\ latest_emotion' = Publish(latest_emotion, "unknown")
  /\ g_worker' = [Published(g_worker) EXCEPT !.failed = TRUE]
  /\ wpc' = "sleep"
  /\ emotion' = "none"
  /\ UNCHANGED << USE_PYAUDIOANALYSIS, running, q, mpc, voice_label, g_seen,
                  video_vars, audio_vars, decode_vars >>

\* time.sleep(0.5), the last statement of the except branch
Sleep ==
  /\ wpc = "sleep"
  /\ wpc' = AfterSleep
  /\ UNCHANGED << USE_PYAUDIOANALYSIS, running, latest_emotion, q, emotion, mpc,
                  voice_label, g_worker, g_seen, video_vars, audio_vars, decode_vars >>

\* what a read of the cell has to return: the value the iteration in
\* progress published, and before it publishes the value the cell had when
\* the iteration started
Expected(g) ==
  IF g.published = 0 THEN g.prev
  ELSE IF g.failed THEN "unknown" ELSE g.label

\* main loop: voice_label = voice_worker.latest_emotion
MainRead ==
  /\ mpc = "loop"
  /\ voice_label' = latest_emotion
  /\ g_seen' = Expected(g_worker)
  /\ UNCHANGED << USE_PYAUDIOANALYSIS, running, latest_emotion, q, worker_locals, mpc,
                  g_worker, video_vars, audio_vars, decode_vars >>

\* main loop left (key q, or a failed frame read); finally: voice_worker.stop()
stop ==
  /\ mpc = "loop"
  /\ running' = FALSE
  /\ mpc' = "ended"
  /\ UNCHANGED << USE_PYAUDIOANALYSIS, latest_emotion, q, worker_locals, voice_label,
                  g_worker, g_seen, video_vars, audio_vars, decode_vars >>

run ==
  \/ WorkerTest
  \/ Capture
  \/ SaveTempWav
  \/ PyAudio
  \/ HeuristicFeatures
  \/ HeuristicRules
  \/ PublishEmotion
  \/ OnWorkerError
  \/ Sleep

\* multimodal_emotion.py, with or without pyAudioAnalysis installed
VoiceInit ==
  /\ VideoInit
  /\ AudioIdle /\ artifacts = TRUE /\ svm_model = NoPosterior
  /\ VoiceIdle /\ USE_PYAUDIOANALYSIS \in BOOLEAN
  /\ DecodeIdle

VoiceNext ==
  \/ run
  \/ MainRead
  \/ stop

VoiceSpec == VoiceInit /\ [][VoiceNext]_vars

\* the worker thread is scheduled, and the blocking calls of an iteration
\* (recording, sleeping) return
VoiceFairness == WF_vars(run)

VoiceFairSpec == VoiceSpec /\ VoiceFairness

\* the frame loop of app.py and the worker of multimodal_emotion.py, each
\* producing its observations
OrderNext ==
  \/ start_camera
  \/ \E l \in Loops : video_feed(l)
  \/ \E l \in Loops : get_frame(l)
  \/ \E l \in Loops : Resume(l)
  \/ run

OrderSpec == VoiceInit /\ [][OrderNext]_vars

(* ------------- predict_from_file and predict_from_audio ---------------- *)
\* detector.predict_from_file(file)
ApplyFile ==
  /\ "file" \notin dpc
  /\ result_file' = predict_from_file(file, svc)
  /\ g_tried' = Decode(file).tried
  /\ dpc' = dpc \cup {"file"}
  /\ UNCHANGED << file, direct, svc, result_direct, video_vars, audio_vars, voice_vars >>

\* detector.predict_from_audio(audio_data, sample_rate)
ApplyDirect ==
  /\ "direct" \notin dpc
  /\ result_direct' = predict_from_audio(direct.signal, Answer(svc, direct))
  /\ dpc' = dpc \cup {"direct"}
  /\ UNCHANGED << file, direct, svc, result_file, g_tried, video_vars, audio_vars,
                  voice_vars >>

\* the two functions on every file, every buffer and every model tried
DecodeInit ==
  /\ VideoInit
  /\ AudioIdle /\ artifacts = TRUE /\ svm_model = NoPosterior
  /\ VoiceIdle /\ USE_PYAUDIOANALYSIS = FALSE
  /\ file \in Files
  /\ direct \in Buffers
  /\ svc \in Models
  /\ dpc = {}
  /\ result_file = EmptyMap
  /\ result_direct = EmptyMap
  /\ g_tried = << >>

DecodeNext == ApplyFile \/ ApplyDirect

DecodeSpec == DecodeInit /\ [][DecodeNext]_vars

(* ====================== properties of the frame loop =================== *)
Processing == {"detect", "clear_wait", "clear", "for", "analyze", "put_wait", "put", "encode"}

\* all entries that one generator put were put in the same iteration
OneFramePerLoop(origin) ==
  \A i, j \in DOMAIN origin :
     origin[i].loop = origin[j].loop => origin[i].cur = origin[j].cur

\* C1: a snapshot returned by get_emotions never mixes entries that a
\* get_frame generator put in one frame iteration with entries it put in
\* another iteration; the registry itself never holds such a mix either (a
\* snapshot taken mid-frame is a smaller set of the frame in progress)
C1_SnapshotOfOneFrame ==
  /\ DOMAIN g_origin = DOMAIN current_emotions
  /\ OneFramePerLoop(g_origin)
  /\ rpc = "reply" =>
       /\ DOMAIN g_snap_origin = DOMAIN emotions
       /\ OneFramePerLoop(g_snap_origin)

\* a snapshot taken mid-frame: it holds the first region of the frame in
\* progress while the generator is classifying the second one
C1_Witness ==
  /\ rpc = "reply"
  /\ DOMAIN emotions = {0}
  /\ g_snap_origin[0].cur
  /\ \E l \in Loops : pc[l] = "analyze" /\ idx[l] = 1 /\ g_snap_origin[0].loop = l

StopPending(l) == Live(l) /\ g_stop[l].emitted >= 0

\* C2 (as claimed): after a stop_camera request that found the loop running,
\* the loop emits at most one further frame, whatever start_camera and
\* stop_camera requests are interleaved with it
C2_Original == \A l \in Loops : StopPending(l) => g_stop[l].emitted <= 1

\* C2 (amended, safety part): after a stop_camera request that found the loop
\* running and as long as no start_camera request followed it, camera_active
\* is false and the loop has emitted at most one further frame
C2_StopBounded ==
  \A l \in Loops :
     (StopPending(l) /\ ~g_stop[l].restarted) =>
        /\ camera_active = FALSE
        /\ g_stop[l].emitted <= 1

\* C2 (amended): the safety part in every state, and under fair scheduling a
\* loop that a stop request found running ends, unless a start_camera
\* request followed the stop request
C2_StopTakesEffect ==
  /\ []C2_StopBounded
  /\ \A l \in Loops :
        (StopPending(l) /\ ~g_stop[l].restarted) ~> (~Live(l) \/ g_stop[l].restarted)

\* a stop request arrived while the frame was being processed; the frame in
\* flight was still emitted and the loop then left the while loop
C2_Witness ==
  \E l \in Loops :
     /\ pc[l] = "release"
     /\ g_stop[l].emitted = 1
     /\ ~g_stop[l].restarted

ZeroArea(box) ==
  { p \in (0..(FrameW - 1)) \X (0..(FrameH - 1)) :
      /\ box.x <= p[1] /\ p[1] < box.x + box.w
      /\ box.y <= p[2] /\ p[2] < box.y + box.h } = {}

Regions(l) == { i \in Indices : i < Len(faces[l]) }
NonDegenerate(l) == { i \in Regions(l) : ~ZeroArea(faces[l][i + 1]) }

\* C5: when the classifier fails for a region, get_frame records emotion
\* "unknown" with confidence 0 at that region's index, still records every
\* other region of the frame whose crop is not empty, emits the frame as one
\* unit and stays in the loop
C5_ClassifierFailureContained ==
  \A l \in Loops :
     /\ \A i \in g_frame[l].failed :
          (pc[l] \in {"for", "encode", "yield"} /\ (pc[l] = "for" => idx[l] > i)) =>
             /\ i \in DOMAIN g_frame[l].puts
             /\ g_frame[l].puts[i].emotion = "unknown"
             /\ g_frame[l].puts[i].confidence = 0
             /\ (g_frame[l].alone /\ lock # l) => current_emotions[i] = g_frame[l].puts[i]
     /\ (g_frame[l].failed # {} /\ pc[l] \in {"encode", "yield"}) =>
          DOMAIN g_frame[l].puts = NonDegenerate(l)
     /\ (g_frame[l].failed # {} /\ pc[l] = "yield") => g_frame[l].units = 1
     /\ (g_frame[l].failed # {} /\ g_frame[l].units = 0) => pc[l] \in Processing

\* the classifier failed for the first region, the second one was classified
\* and recorded, and the frame was emitted
C5_Witness ==
  \E l \in Loops :
     /\ pc[l] = "yield"
     /\ g_frame[l].failed = {0}
     /\ 1 \in DOMAIN g_frame[l].puts
     /\ g_frame[l].puts[1].emotion = "happy"
     /\ current_emotions[0].emotion = "unknown"

\* C6: every frame read produces exactly one stream unit, whatever localizer
\* or classifier failures occur: none while the frame is processed, one from
\* its emission on; a frame on which the localizer raised is emitted without
\* overlay and without registry entry, and the generator stays in the loop
C6_OneUnitPerFrame ==
  \A l \in Loops :
     g_frame[l].read =>
        /\ g_frame[l].units = (IF pc[l] \in Processing THEN 0 ELSE 1)
        /\ ~g_frame[l].located =>
             /\ ~g_frame[l].drawn
             /\ g_frame[l].puts = EmptyMap
             /\ pc[l] \notin {"clear_wait", "clear", "for", "analyze", "put_wait", "put"}

\* the localizer raised and the frame was emitted all the same; the next
\* iteration has started
C6_Witness ==
  \E l \in Loops :
     /\ pc[l] = "read"
     /\ g_frame[l].read
     /\ ~g_frame[l].located
     /\ g_frame[l].units = 1

\* C7: a region whose crop has zero area never gets a registry entry; every
\* entry is keyed by the region's index in the localizer's result and carries
\* that region's coordinates; once the for loop is over exactly the regions
\* with a non-empty crop have an entry, so the registry holds one entry less
\* than the raw detections per degenerate region
C7_ZeroAreaSkipped ==
  \A l \in Loops :
     /\ pc[l] \in Processing \cup {"yield"} =>
        \A i \in DOMAIN g_frame[l].puts :
          /\ i \in NonDegenerate(l)
          /\ g_frame[l].puts[i].coords =
               << faces[l][i + 1].x, faces[l][i + 1].y,
                  faces[l][i + 1].x + faces[l][i + 1].w,
                  faces[l][i + 1].y + faces[l][i + 1].h >>
     /\ (pc[l] \in {"encode", "yield"} /\ g_frame[l].located) =>
          /\ DOMAIN g_frame[l].puts = NonDegenerate(l)
          /\ g_frame[l].alone => 
               /\ current_emotions = g_frame[l].puts
               /\ Cardinality(DOMAIN current_emotions) =
                    Len(faces[l]) - Cardinality({ i \in Regions(l) : ZeroArea(faces[l][i + 1]) })

\* two raw detections, the first with an empty crop: the frame completed
\* with the single entry of the second one, under its original index 1
C7_Witness ==
  \E l \in Loops :
     /\ pc[l] = "yield"
     /\ Len(faces[l]) = 2
     /\ ZeroArea(faces[l][1])
     /\ DOMAIN current_emotions = {1}
     /\ g_frame[l].alone

\* C11 (as claimed): the registry is not mutated at all while capture is
\* inactive, that is while camera_active is false
C11_Original == [][camera_active = FALSE => current_emotions' = current_emotions]_vars

\* C11 (amended): once capture is at rest (camera_active is false and every
\* get_frame loop has finished the frame it had in flight: it is suspended
\* at its yield or has left the while loop) and as long as no start_camera
\* request follows, the registry is not mutated, and two consecutive
\* /emotions queries return the identical snapshot
C11_StableAtRest ==
  /\ g_prev.count >= 1 => current_emotions = g_prev.snap
  /\ (rpc = "reply" /\ g_prev.count = 2) => emotions = g_prev.snap

\* the loop was stopped during a frame with two regions, emitted it and
\* left; the second of two queries made since then is being answered with
\* the two entries of that frame
C11_Witness ==
  /\ rpc = "reply"
  /\ g_prev.count = 2
  /\ DOMAIN emotions = {0, 1}
  /\ camera_active = FALSE
  /\ \E l \in Loops : pc[l] = "done" /\ g_stop[l].emitted = 1

\* C12 (as claimed): once start_camera has raised the flag, a frame loop is
\* running for every stream that was requested and whose client is still
\* there, in whatever order the start_camera, stop_camera and video_feed
\* requests arrived
C12_Original ==
  \A l \in Loops : (camera_active /\ pc[l] \notin {"none", "closed"}) => Live(l)

(* ==================== properties of the audio detector ================= *)
Replied(h) == hpc[h] = "reply"

\* the largest value of a posterior
RawMax(probabilities) ==
  CHOOSE v \in { probabilities[i] : i \in DOMAIN probabilities } :
     \A i \in DOMAIN probabilities : probabilities[i] <= v

\* C3 (as claimed): whenever the model returned a posterior, the returned
\* confidence is in [0,1]; below 0.15 the label is "neutral" and the
\* confidence exactly 0.15; from 0.15 on the label is the model's prediction
\* and the confidence is the raw maximum
C3_Original ==
  \A h \in Handlers :
     (Replied(h) /\ g_call[h].raw.kind = "ok") =>
        LET raw == RawMax(g_call[h].raw.probabilities)
            body == response[h].body
        IN  /\ 0 <= body.confidence /\ body.confidence <= 100000
            /\ raw < 15000 => (body.emotion = "neutral" /\ body.confidence = 15000)
            /\ raw >= 15000 =>
                 (body.emotion = g_call[h].raw.prediction /\ body.confidence = raw)

\* C3 (amended): as claimed, except that from 0.15 on the confidence is the
\* raw maximum rounded to 4 decimal places: a multiple of 0.0001 at most
\* 0.00005 away from the raw maximum
C3_ConfidenceGate ==
  \A h \in Handlers :
     (Replied(h) /\ g_call[h].raw.kind = "ok") =>
        LET raw == RawMax(g_call[h].raw.probabilities)
            body == response[h].body
        IN  /\ 0 <= body.confidence /\ body.confidence <= 100000
            /\ raw < 15000 => (body.emotion = "neutral" /\ body.confidence = 15000)
            /\ raw >= 15000 =>
                 /\ body.emotion = g_call[h].raw.prediction
                 /\ body.confidence % 10 = 0
                 /\ body.confidence - raw <= 5
                 /\ raw - body.confidence <= 5

\* the model predicted "angry" with a raw maximum below 0.15 and the
\* response says "neutral" with confidence 0.15
C3_Witness ==
  \E h \in Handlers :
     /\ Replied(h)
     /\ g_call[h].raw.kind = "ok"
     /\ g_call[h].raw.prediction = "angry"
     /\ RawMax(g_call[h].raw.probabilities) < 15000
     /\ response[h].body.emotion = "neutral"
     /\ response[h].body.confidence = 15000

\* C8 (as claimed): once a load of the artifacts has failed the classifier
\* is unavailable for good
C8_Original == g_load_failed => _detector = None

\* C8 (amended): a call of get_detector that finds the detector unset tries
\* the load, whatever earlier calls did. When the artifacts cannot be loaded
\* the call returns None, leaves the detector unset and the request is
\* answered "detector not initialized"; that answer is given only after a
\* load that failed in the same request. When they can be loaded the call
\* returns the detector, also after earlier failures.
C8_UnavailableWhileMissing ==
  \A h \in Handlers :
     /\ (hpc[h] \in {"check", "predict", "reply"} /\ g_call[h].load = "missing") =>
          detector[h] = None
     /\ (Replied(h) /\ g_call[h].load = "missing") => response[h] = NotInitialized
     /\ (hpc[h] \in {"check", "predict", "reply"} /\ g_call[h].load = "present") =>
          /\ detector[h] # None
          /\ _detector # None
          /\ response[h] # NotInitialized
     /\ (hpc[h] = "check" /\ detector[h] = None) => g_call[h].load = "missing"
     /\ response[h] = NotInitialized => g_call[h].load = "missing"
     /\ (_detector = None /\ hpc[h] \in {"check", "predict"}) => g_call[h].load = "missing"

\* a load failed earlier; a later request loaded the detector and was
\* answered with a prediction
C8_Witness ==
  /\ g_load_failed
  /\ \E h \in Handlers :
        /\ Replied(h)
        /\ g_call[h].load = "present"
        /\ response[h].status = 200
        /\ request[h].endpoint = "numpy"

\* C9 (as claimed): while the artifacts are missing and the detector is
\* unset, every request to an audio endpoint is answered "detector not
\* initialized", and nothing was recorded or written before that answer
C9_Original ==
  \A h \in Handlers :
     (Replied(h) /\ g_call[h].absent) =>
        /\ response[h] = NotInitialized
        /\ g_call[h].effects = {}

IsFailure(r) == r.status >= 400 \/ "error" \in DOMAIN r.body

\* C10 (as claimed): every failure response carries emotion "neutral",
\* confidence 0.0 and an error message
C10_Original ==
  \A h \in Handlers :
     (Replied(h) /\ IsFailure(response[h])) =>
        /\ {"emotion", "confidence", "error"} \subseteq DOMAIN response[h].body
        /\ response[h].body.emotion = "neutral"
        /\ response[h].body.confidence = 0

\* predict_from_audio was called for the request and something inside it
\* raised: the feature extraction, the scaler or the model
FailedInside(h) ==
  /\ g_call[h].invoked # {}
  /\ g_call[h].raw.kind # "ok"

\* C15: when the feature extraction, the scaling or the model invocation
\* raises inside predict_from_audio, the call returns the degraded
\* observation with emotion "neutral", confidence 0.0, an empty distribution
\* and the error message; nothing reaches the endpoint's own except branch:
\* the endpoint answers 200 with that observation
C15_FailureDegraded ==
  \A h \in Handlers :
     (Replied(h) /\ FailedInside(h)) =>
        /\ response[h].status = 200
        /\ DOMAIN response[h].body = {"emotion", "confidence", "probabilities", "error"}
        /\ response[h].body.emotion = "neutral"
        /\ response[h].body.confidence = 0
        /\ DOMAIN response[h].body.probabilities = {}

\* the model raised on the features of a raw array; the request is answered
\* with the degraded observation
C15_Witness ==
  \E h \in Handlers :
     /\ Replied(h)
     /\ request[h].endpoint = "numpy"
     /\ g_call[h].invoked = {"extract", "classify"}
     /\ svm_model.kind = "raise"
     /\ response[h].body.emotion = "neutral"
     /\ "error" \in DOMAIN response[h].body

\* C16: a raw-array request whose audio sequence is empty is answered 400
\* "No audio data provided", whether or not the detector can be loaded, and
\* neither the feature extractor nor the classifier (nor get_detector) is
\* invoked for it
C16_EmptyArrayRejected ==
  \A h \in Handlers :
     (request[h].endpoint = "numpy" /\ request[h].ok /\ request[h].audio = "empty") =>
        /\ hpc[h] \in {"validate", "reply"}
        /\ g_call[h].invoked = {}
        /\ g_call[h].load = "none"
        /\ Replied(h) => response[h] = NoAudioData

\* an empty raw array was answered 400 while the artifacts are in place
C16_Witness ==
  \E h \in Handlers :
     /\ Replied(h)
     /\ request[h].endpoint = "numpy"
     /\ request[h].audio = "empty"
     /\ response[h].status = 400
     /\ artifacts

(* ====================== properties of predict_from_file ================ *)
\* one of the two decoders reads the file
Decodable(f) == f.reader \in {"primary", "secondary"}

\* what a decodable file decodes to: its waveform as unit-scale samples at
\* the canonical rate
DecodesTo(f) == Buffer(f.signal, 22050, "unit")

\* predict_from_audio fails on the buffer: the extraction raises, or the
\* scaler or the model does
FailsOn(b, model) == ExtractRaises(b.signal) \/ model[<< b.signal, b.rate >>].kind # "ok"

\* C17 (as claimed): the primary decoder is tried first and the secondary one
\* only after it failed; when either decoder reads the file the result is a
\* normal prediction without error; only when both fail the result is
\* {neutral, 0.0, error}
C17_Original ==
  "file" \in dpc =>
     /\ g_tried \in { << "librosa.load" >>, << "librosa.load", "wavfile.read" >> }
     /\ Len(g_tried) = 2 => file.reader # "primary"
     /\ Decodable(file) => "error" \notin DOMAIN result_file
     /\ ~Decodable(file) =>
          /\ DOMAIN result_file = {"emotion", "confidence", "error"}
          /\ result_file.emotion = "neutral"
          /\ result_file.confidence = 0

\* C17 (amended): as claimed, except that when a decoder reads the file the
\* result is whatever predict_from_audio returns on the decoded samples: a
\* prediction without error, or, when the feature extraction, the scaler or
\* the model raises on them, the degraded observation with its error and an
\* empty distribution. predict_from_file always returns a result with an
\* emotion and a confidence.
C17_DecodeFallback ==
  "file" \in dpc =>
     /\ g_tried \in { << "librosa.load" >>, << "librosa.load", "wavfile.read" >> }
     /\ Len(g_tried) = 2 => file.reader # "primary"
     /\ file.reader = "secondary" => Len(g_tried) = 2
     /\ {"emotion", "confidence"} \subseteq DOMAIN result_file
     /\ Decodable(file) =>
          /\ "probabilities" \in DOMAIN result_file
          /\ "error" \in DOMAIN result_file <=> FailsOn(DecodesTo(file), svc)
          /\ "error" \in DOMAIN result_file =>
                /\ result_file.emotion = "neutral"
                /\ result_file.confidence = 0
                /\ DOMAIN result_file.probabilities = {}
     /\ ~Decodable(file) =>
          /\ DOMAIN result_file = {"emotion", "confidence", "error"}
          /\ result_file.emotion = "neutral"
          /\ result_file.confidence = 0

\* librosa.load failed on a file stored at 44100 Hz, wavfile.read read it,
\* and the result is a prediction without error
C17_Witness ==
  /\ "file" \in dpc
  /\ g_tried = << "librosa.load", "wavfile.read" >>
  /\ file.rate = 44100
  /\ "error" \notin DOMAIN result_file
  /\ result_file.emotion = "angry"

Endpoint(h) ==
  \/ Arrive(h)
  \/ Validation(h)
  \/ Effects(h)
  \/ get_detector_test(h)
  \/ get_detector_load(h)
  \/ CheckDetector(h)
  \/ Predict(h)
  \/ Return(h)

\* C19: no step of an audio endpoint, on a success path or on an error path,
\* changes the capture flag, the registry or the registry's lock
C19_EndpointsLeaveCapture ==
  [][(\E h \in Handlers : Endpoint(h)) =>
        UNCHANGED << camera_active, current_emotions, lock >>]_vars

\* a record request was answered with a prediction while a stream is served:
\* the flag is up and the registry holds the entry of the frame
C19_Witness ==
  /\ camera_active
  /\ DOMAIN current_emotions = {0}
  /\ current_emotions[0].emotion = "happy"
  /\ \E h \in Handlers :
        /\ Replied(h)
        /\ request[h].endpoint = "record"
        /\ response[h].status = 200
        /\ "error" \notin DOMAIN response[h].body

(* ====================== properties of the VoiceWorker ================== *)
InIteration == {"capture", "save", "pyaudio", "heuristic", "rules", "publish", "except"}

\* C13 (safety part): the worker leaves run only once stop() was called, a
\* failed iteration leaves it in the loop, and at most one value is
\* published after stop()
C13_ExitsOnlyOnStop ==
  /\ wpc = "exit" => ~running
  /\ (g_worker.failed /\ running) => wpc \in {"sleep", "test"}
  /\ g_worker.after_stop <= 1
  /\ g_worker.after_stop = 1 => wpc \in {"sleep", "test", "exit"}

\* C13: the safety part in every state; when the worker thread is scheduled
\* and its blocking calls return, a failed iteration is followed by the
\* sleep and by another iteration (or by the exit when stop() was called
\* meanwhile), and after stop() the worker exits
C13_RunsUntilStopped ==
  /\ []C13_ExitsOnlyOnStop
  /\ (wpc = "sleep") ~> (wpc \in {"capture", "exit"})
  /\ (~running) ~> (wpc = "exit")

\* an iteration failed and the worker slept; stop() was called during the
\* iteration after it, which still published its value, and the worker left
C13_Witness ==
  /\ g_worker.retried
  /\ g_worker.after_stop = 1
  /\ wpc = "exit"

\* C14: the cell always holds the value of the latest publication: the label
\* the classification of that iteration returned, or "unknown" when that
\* iteration failed, and before the first publication the initial value; an
\* iteration publishes exactly one value, by its end; nothing is ever put in
\* the queue; what the main loop reads is the cell's value at that moment
C14_LatestWins ==
  /\ latest_emotion = Expected(g_worker)
  /\ wpc \in InIteration => g_worker.published = 0
  /\ (wpc \in {"sleep", "test", "exit"} /\ g_worker.steps # << >>) =>
        g_worker.published = 1
  /\ (g_worker.published = 1 /\ ~g_worker.failed) =>
        latest_emotion \in HeuristicLabels \cup PyAudioLabels \cup {"unknown"}
  /\ q = << >>
  /\ voice_label # "none" => voice_label = g_seen

\* the main loop read "unknown" after a failed iteration; the next iteration
\* has published "happy" since, which is what the cell holds now
C14_Witness ==
  /\ voice_label = "unknown"
  /\ g_worker.retried
  /\ g_worker.published = 1
  /\ latest_emotion = "happy"
  /\ wpc = "test"

(* ================= order of the steps of a frame and a chunk =========== *)
FrameOrder == << "crop", "classify", "publish" >>
ChunkOrder == << "capture", "extract", "classify", "publish" >>

IsPrefix(s1, s2) == Len(s1) <= Len(s2) /\ \A i \in 1..Len(s1) : s1[i] = s2[i]

\* C20 (as claimed): for every region and for every chunk the steps finished
\* so far are the first ones of extraction, classification, publication, in
\* this order: nothing is published before its classification has finished
C20_Original ==
  /\ \A l \in Loops : IsPrefix(g_frame[l].steps, FrameOrder)
  /\ IsPrefix(g_worker.steps, ChunkOrder)

\* C20 (amended): in get_frame a region is cropped, then classified
\* (successfully or with the contained failure value), then stored; in the
\* worker a chunk is captured, its features are extracted, it is classified
\* and then published, except that an iteration whose capture or temp-file
\* write raises publishes "unknown" without any extraction or classification
C20_StepsOrdered ==
  /\ \A l \in Loops :
        /\ IsPrefix(g_frame[l].steps, FrameOrder)
        /\ pc[l] = "analyze" => g_frame[l].steps = << "crop" >>
        /\ pc[l] \in {"put_wait", "put"} => g_frame[l].steps = << "crop", "classify" >>
  /\ wpc = "publish" => g_worker.steps = << "capture", "extract", "classify" >>
  /\ wpc = "except" => g_worker.steps \in { << >>, << "capture" >> }
  /\ IF g_worker.failed
     THEN /\ g_worker.steps \in { << "publish" >>, << "capture", "publish" >> }
          /\ latest_emotion = "unknown"
     ELSE IsPrefix(g_worker.steps, ChunkOrder)

\* a region was stored after its classification failed, and the worker
\* published "unknown" for a chunk whose temp-file write raised
C20_Witness ==
  /\ \E l \in Loops :
        /\ g_frame[l].steps = FrameOrder
        /\ g_frame[l].failed = {0}
        /\ pc[l] = "for"
        /\ idx[l] = 1
  /\ g_worker.failed
  /\ g_worker.steps = << "capture", "publish" >>

(* ------------------------------ C21 ----------------------------------- *)
\* positions of get_frame from the reset of the registry to its last put of
\* the frame
Writing == {"clear_wait", "clear", "for", "analyze", "put_wait", "put"}

\* C21 (as stated): at any time at most one frame loop is resetting and
\* writing the registry: no two generators are between their reset and their
\* last put at once, and the registry never holds entries of two generators
C21_Original ==
  /\ \A l1, l2 \in Streams : (pc[l1] \in Writing /\ pc[l2] \in Writing) => l1 = l2
  /\ \A i, j \in DOMAIN g_origin : g_origin[i].loop = g_origin[j].loop

(* ------------------------------ C22 ----------------------------------- *)
\* fields of a complete observation
EntryFields == {"emotion", "confidence", "coords"}

Complete(m) == \A i \in DOMAIN m : DOMAIN m[i] = EntryFields

\* C22: a generator is at its reset or at a put exactly while it holds the
\* lock and the reader is at its copy exactly while it holds the lock, so
\* the three exclude one another; every entry of the registry and of a
\* snapshot has all of emotion, confidence and coords; and while the reader
\* holds its snapshot no step (no later reset or put) changes it
C22_LockedRegistry ==
  /\ [](/\ \A l \in Streams : pc[l] \in {"clear", "put"} <=> lock = l
        /\ rpc = "copy" <=> lock = Reader
        /\ Complete(current_emotions)
        /\ Complete(emotions))
  /\ [][(rpc = "reply" /\ rpc' = "reply") => emotions' = emotions]_vars

\* the reader holds a snapshot with an entry while the loop has reset the
\* registry since and waits for the lock to put the next entry
C22_Witness ==
  /\ rpc = "reply"
  /\ DOMAIN emotions # {}
  /\ current_emotions = EmptyMap
  /\ \E l \in Loops : pc[l] = "put_wait"

(* ------------------------------ C23 ----------------------------------- *)
\* C23 (as stated): every coords value stored in the registry lies inside
\* the frame: 0 <= x1 <= x2 <= frame width and 0 <= y1 <= y2 <= frame height
C23_Original ==
  \A i \in DOMAIN current_emotions :
     LET c == current_emotions[i].coords
     IN  /\ 0 <= c[1] /\ c[1] <= c[3] /\ c[3] <= FrameW
         /\ 0 <= c[2] /\ c[2] <= c[4] /\ c[4] <= FrameH

(* ------------------------------ C24 ----------------------------------- *)
\* C24: a generator whose cap.read() failed is at cap.release() or has
\* returned, and does not hold the lock; the failing read and the release
\* after it leave the registry and the number of emitted units as they were;
\* and the generator does return, which ends the stream
C24_ReadFailureEndsStream ==
  /\ [](\A l \in Loops :
          g_frame[l].ended = "read" => (pc[l] \in {"release", "done"} /\ lock # l))
  /\ [][\A l \in Loops :
          (g_frame'[l].ended = "read" /\ pc'[l] # pc[l]) =>
             /\ pc'[l] = IF pc[l] = "read" THEN "release" ELSE "done"
             /\ current_emotions' = current_emotions
             /\ g_frame'[l].units = g_frame[l].units]_vars
  /\ \A l \in Loops : (g_frame[l].ended = "read") ~> (pc[l] = "done")

\* the second read of a stream failed: the generator returned, one unit was
\* emitted (for the first frame) and the first frame's entry is still there
C24_Witness ==
  \E l \in Loops :
     /\ pc[l] = "done"
     /\ g_frame[l].ended = "read"
     /\ g_frame[l].units = 1
     /\ DOMAIN current_emotions # {}

(* ------------------------------ C25 ----------------------------------- *)
\* the reply carries a result of predict_from_audio that is not the degraded
\* error observation
Observed(h) ==
  /\ Replied(h)
  /\ g_call[h].invoked # {}
  /\ "error" \notin DOMAIN response[h].body

\* C25: in every result that is not the degraded observation the keys of
\* probabilities are exactly the labels of classes_ and the value at each
\* label is the posterior predict_proba returned for it, whether or not the
\* confidence gate replaced label and confidence
C25_RawDistribution ==
  \A h \in Handlers :
     Observed(h) =>
        /\ g_call[h].raw.kind = "ok"
        /\ DOMAIN response[h].body.probabilities = { classes_[i] : i \in 1..NumClasses }
        /\ \A i \in 1..NumClasses :
              response[h].body.probabilities[classes_[i]] = g_call[h].raw.probabilities[i]

\* the gate replaced label and confidence (raw maximum 0.14999 at the first
\* class), and the distribution still shows 0.14999 there
C25_Witness ==
  \E h \in Handlers :
     /\ Observed(h)
     /\ response[h].body.emotion = "neutral"
     /\ response[h].body.confidence = GateFloor
     /\ g_call[h].raw.probabilities[1] = 14999
     /\ response[h].body.probabilities[classes_[1]] = 14999

(* ------------------------------ C26 ----------------------------------- *)
\* C26: a result of predict_from_audio either is the degraded observation
\* (confidence exactly 0.0, an error field, an empty probabilities mapping)
\* or has a confidence in [0.15, 1]; so none has a confidence strictly
\* between 0 and 0.15; and its label is one of classes_ or "neutral"
C26_ConfidenceRange ==
  \A h \in Handlers :
     (Replied(h) /\ g_call[h].invoked # {}) =>
        LET body == response[h].body
        IN  /\ \/ /\ body.confidence = 0
                  /\ "error" \in DOMAIN body
                  /\ body.probabilities = EmptyMap
               \/ /\ GateFloor <= body.confidence
                  /\ body.confidence <= 100000
                  /\ "error" \notin DOMAIN body
            /\ body.emotion \in { classes_[i] : i \in 1..NumClasses } \cup {"neutral"}

\* a raw maximum of 0.15004, just above the gate, is returned as exactly
\* 0.15 with the model's own label
C26_Witness ==
  \E h \in Handlers :
     /\ Replied(h)
     /\ g_call[h].raw.kind = "ok"
     /\ RawMax(g_call[h].raw.probabilities) = 15004
     /\ response[h].body.confidence = 15000
     /\ response[h].body.emotion = g_call[h].raw.prediction
     /\ response[h].body.emotion # "neutral"

(* ------------------------------ C27 ----------------------------------- *)
\* C27 (as stated): get_detector is a singleton: at most one detector is
\* ever constructed, and the requests in progress that were handed a
\* detector all hold the same instance, the one in _detector
C27_Original ==
  /\ g_built <= 1
  /\ \A h \in Threads : detector[h] # None => detector[h] = _detector

(* ------------------------------ C28 ----------------------------------- *)
\* C28 (as stated): however the frame loop ended (flag found false, read
\* failed, generator closed at the yield), the capture it opened has been
\* released
C28_Original ==
  \A l \in Loops :
     (pc[l] \in {"done", "closed"} /\ g_frame[l].ended # "no") => cap[l] = "released"

(* ------------------------------ C29 ----------------------------------- *)
\* C29 (as stated): once the flag is false no frame loop begins another
\* iteration: a generator that emitted a unit after a stop_camera request is
\* not inside an iteration again
C29_Original ==
  \A l \in Loops : g_stop[l].emitted >= 1 => pc[l] \notin InFrame

\* C29 (amended): only start_camera and stop_camera change the flag (so a
\* generator that ends, by a failed read or otherwise, leaves it as it is),
\* and a generator begins an iteration only in a state where the flag is
\* true: while the flag stays false no iteration begins
C29_FlagWriters ==
  /\ [][camera_active' # camera_active => (start_camera \/ stop_camera)]_vars
  /\ [][\A l \in Loops : (pc[l] # "read" /\ pc'[l] = "read") => camera_active]_vars

\* a generator ended on a failed read and the flag is still true
C29_Witness ==
  \E l \in Loops :
     /\ pc[l] = "done"
     /\ g_frame[l].ended = "read"
     /\ camera_active = TRUE

(* ------------------------------ C30 ----------------------------------- *)
\* the labels the worker itself can produce
FixedLabels == {"angry", "happy", "sad", "neutral", "unknown"}

Called(name) == \E i \in DOMAIN g_worker.tried : g_worker.tried[i] = name

\* C30: in an iteration the first classifier called is the trained one when
\* it is available and the heuristic otherwise; the heuristic is called only
\* when the trained classifier is unavailable or raised, and in that case it
\* has been called by the time the value is published; when the heuristic
\* itself failed the value to publish is "unknown"; and whatever the cell
\* holds after "listening..." is a label the trained classifier returned
\* (which takes that it is available) or one of the fixed labels
C30_ClassifierThenFallback ==
  /\ g_worker.tried # << >> =>
        g_worker.tried[1] = (IF USE_PYAUDIOANALYSIS THEN "pyaudio" ELSE "heuristic")
  /\ Called("heuristic") => (~USE_PYAUDIOANALYSIS \/ "pyaudio" \in g_worker.raised)
  /\ wpc = "publish" =>
        /\ (~USE_PYAUDIOANALYSIS \/ "pyaudio" \in g_worker.raised) => Called("heuristic")
        /\ "heuristic" \in g_worker.raised => emotion = "unknown"
        /\ emotion \in PyAudioLabels \cup FixedLabels
  /\ latest_emotion # InitialLabel =>
        /\ latest_emotion \in PyAudioLabels \cup FixedLabels
        /\ latest_emotion \notin FixedLabels => USE_PYAUDIOANALYSIS

\* the trained classifier was called first and raised, the heuristic was
\* called next and failed too, and "unknown" is about to be published
C30_Witness ==
  /\ USE_PYAUDIOANALYSIS
  /\ g_worker.tried = << "pyaudio", "heuristic" >>
  /\ g_worker.raised = {"pyaudio", "heuristic"}
  /\ wpc = "publish"
  /\ emotion = "unknown"

====
